---- MODULE Spec2Model ----
(***************************************************************************)
(* A model of wasm-service: the Response builder (src/src/response.rs),    *)
(* the per-request Context (src/src/context.rs), the request orchestrator  *)
(* service_request and the deferred runner deferred_promise                *)
(* (src/src/lib.rs).                                                       *)
(*                                                                         *)
(* Strings are tuples of Unicode code points, byte buffers are tuples of   *)
(* byte values; Utf8 converts the first into the second.                   *)
(***************************************************************************)
EXTENDS Integers, Sequences, FiniteSets, TLC

(***************************************************************************)
(* Bounds of the model.                                                    *)
(***************************************************************************)
\* longest handler list of a ServiceConfig
MaxHandlers == 2
\* most Context/Response calls the handlers of one invocation make in all
MaxOps == 2
\* most entries the deferred tasks of one invocation log
MaxRunLogs == 1
\* longest sequence of builder calls applied to a fresh Response
MaxCalls == 3

\* Option<T>: None is the empty tuple, Some(x) the tuple holding x
None == <<>>
Some(x) == <<x>>
is_some(o) == o # <<>>
unwrap(o) == o[1]

\* the host's undefined value
Undefined == "undefined"

(***************************************************************************)
(* Text and bytes.                                                         *)
(***************************************************************************)
RECURSIVE Utf8(_)
Utf8(s) ==
    IF s = <<>> THEN <<>>
    ELSE LET c == Head(s)
         IN  (IF c < 128 THEN <<c>>
              ELSE <<192 + (c \div 64), 128 + (c % 64)>>) \o Utf8(Tail(s))

\* "Not Found"
NotFoundText == <<78, 111, 116, 32, 70, 111, 117, 110, 100>>
\* "Sorry, an internal error has occurred. It has been logged."
SorryText ==
    <<83, 111, 114, 114, 121, 44, 32, 97, 110, 32, 105, 110, 116, 101, 114,
      110, 97, 108, 32, 101, 114, 114, 111, 114, 32, 104, 97, 115, 32, 111,
      99, 99, 117, 114, 114, 101, 100, 46, 32, 73, 116, 32, 104, 97, 115,
      32, 98, 101, 101, 110, 32, 108, 111, 103, 103, 101, 100, 46>>
\* "café": a text whose UTF-8 form differs from its code points
CafeText == <<99, 97, 102, 233>>

\* the inputs handlers draw from
StatusValues == {200, 201}
ByteValues == {<<>>}
TextValues == {CafeText}
HandlerReturns == {[status |-> 200, text |-> <<>>], [status |-> 500, text |-> CafeText]}
JsonValues == {"serializable", "unserializable"}
HeaderKeys == {"Content-Type"}
HeaderValues == {"text/html", "bad\n"}
Errors == {[kind |-> "Other", msg |-> "db down"]}

(***************************************************************************)
(* Response (src/src/response.rs).                                         *)
(***************************************************************************)
HeaderNames == {"content-type", "last-modified"}
Absent == "absent"

\* web_sys::Headers::new(): a header store with no entry
NewHeaders == [n \in HeaderNames |-> Absent]

\* the host header store lower-cases names
NormalizeName(k) == IF k = "Content-Type" THEN "content-type" ELSE k

\* the host header store rejects a value with a line break
ValidHeaderValue(v) == v # "bad\n"

\* impl Default for Response
DefaultResponse ==
    [status |-> 200, headers |-> None, body |-> <<>>, unset |-> TRUE]

status(r, s) == [r EXCEPT !.status = s, !.unset = FALSE]

body(r, b) == [r EXCEPT !.body = b, !.unset = FALSE]

text(r, t) == [r EXCEPT !.body = Utf8(t), !.unset = FALSE]

\* Result of a fallible builder call: the response as the call left it
Ok(r) == [ok |-> TRUE, resp |-> r]
Err(r, e) == [ok |-> FALSE, resp |-> r, err |-> e]

\* mutant: a header call marks the response as set
header_clears_unset(r, k, v) ==
    LET r1 == IF r.headers = None
              THEN [r EXCEPT !.headers = Some(NewHeaders), !.unset = FALSE]
              ELSE [r EXCEPT !.unset = FALSE]
    IN  IF ValidHeaderValue(v)
        THEN Ok([r1 EXCEPT !.headers = Some([unwrap(@) EXCEPT ![NormalizeName(k)] = v])])
        ELSE Err(r1, "Js")

header(r, k, v) ==
    LET r1 == IF r.headers = None THEN [r EXCEPT !.headers = Some(NewHeaders)] ELSE r
    IN  IF ValidHeaderValue(v)
        THEN Ok([r1 EXCEPT !.headers = Some([unwrap(@) EXCEPT ![NormalizeName(k)] = v])])
        ELSE Err(r1, "Js")

content_type(r, c) == header(r, "content-type", c)

\* serde_json::to_vec of the values handlers serialize
to_vec(value) == <<123, 125>>

\* mutant: the Content-Type is set before the value is serialized
json_content_type_first(r, value) ==
    LET r1 == content_type(r, "application/json").resp
    IN  IF value = "unserializable"
        THEN Err(r1, "Json")
        ELSE Ok([r1 EXCEPT !.body = to_vec(value), !.unset = FALSE])

json(r, value) ==
    IF value = "unserializable"
    THEN Err(r, "Json")
    ELSE LET r1 == [r EXCEPT !.body = to_vec(value)]
             r2 == content_type(r1, "application/json").resp
         IN  Ok([r2 EXCEPT !.unset = FALSE])

get_status(r) == r.status

\* mutant: "unset" judged by the emptiness of status and body
is_unset_by_emptiness(r) == r.status = 200 /\ r.body = <<>>

is_unset(r) == r.unset

into_js(r) ==
    [status |-> r.status,
     body |-> r.body,
     headers |-> IF is_some(r.headers) THEN unwrap(r.headers) ELSE NewHeaders]

(***************************************************************************)
(* Method (src/src/method.rs) and the host event (src/src/request.rs).     *)
(***************************************************************************)
\* enum Method
Methods == {"Method::GET", "Method::POST", "Method::PUT", "Method::DELETE",
            "Method::HEAD", "Method::OPTIONS"}

\* mutant: the HEAD arm yields GET
Method_from_head_as_get(s) ==
    CASE s \in {"GET", "get"} -> [ok |-> TRUE, v |-> "Method::GET"]
      [] s \in {"POST", "post"} -> [ok |-> TRUE, v |-> "Method::POST"]
      [] s \in {"PUT", "put"} -> [ok |-> TRUE, v |-> "Method::PUT"]
      [] s \in {"DELETE", "delete"} -> [ok |-> TRUE, v |-> "Method::DELETE"]
      [] s \in {"HEAD", "head"} -> [ok |-> TRUE, v |-> "Method::GET"]
      [] s \in {"OPTIONS", "options"} -> [ok |-> TRUE, v |-> "Method::OPTIONS"]
      [] OTHER -> [ok |-> FALSE, v |-> "Unsupported http method"]

Method_from(s) ==
    CASE s \in {"GET", "get"} -> [ok |-> TRUE, v |-> "Method::GET"]
      [] s \in {"POST", "post"} -> [ok |-> TRUE, v |-> "Method::POST"]
      [] s \in {"PUT", "put"} -> [ok |-> TRUE, v |-> "Method::PUT"]
      [] s \in {"DELETE", "delete"} -> [ok |-> TRUE, v |-> "Method::DELETE"]
      [] s \in {"HEAD", "head"} -> [ok |-> TRUE, v |-> "Method::HEAD"]
      [] s \in {"OPTIONS", "options"} -> [ok |-> TRUE, v |-> "Method::OPTIONS"]
      [] OTHER -> [ok |-> FALSE, v |-> "Unsupported http method"]

\* impl Display for Method
Method_fmt(m) ==
    CASE m = "Method::GET" -> "GET"
      [] m = "Method::POST" -> "POST"
      [] m = "Method::PUT" -> "PUT"
      [] m = "Method::DELETE" -> "DELETE"
      [] m = "Method::HEAD" -> "HEAD"
      [] m = "Method::OPTIONS" -> "OPTIONS"

\* the absolute urls the host events carry, and Url::path of each:
\* "/", "/a.html", "/f/" and "/x"
Url_path ==
    ("https://example.com/" :> <<47>>)
    @@ ("https://example.com/a.html" :> <<47, 97, 46, 104, 116, 109, 108>>)
    @@ ("https://example.com/f/" :> <<47, 102, 47>>)
    @@ ("https://example.com/x" :> <<47, 120>>)

\* Url::parse of the urls the host events carry
Url_parse(s) ==
    IF s \in DOMAIN Url_path THEN [ok |-> TRUE, v |-> s]
    ELSE [ok |-> FALSE, v |-> "invalid req.url:relative URL without a base"]

\* mutant: the headers are optional, as the body is
from_js_headers_optional(map) ==
    IF map.method = Undefined THEN [ok |-> FALSE, v |-> "invalid_req.method"]
    ELSE IF ~Method_from(map.method).ok
    THEN [ok |-> FALSE, v |-> Method_from(map.method).v]
    ELSE IF map.url = Undefined THEN [ok |-> FALSE, v |-> "invalid_req.url"]
    ELSE IF ~Url_parse(map.url).ok THEN [ok |-> FALSE, v |-> Url_parse(map.url).v]
    ELSE [ok |-> TRUE, v |-> "Request"]

\* Request::from_js: the Request, or the host-level error value
from_js(map) ==
    IF map.method = Undefined THEN [ok |-> FALSE, v |-> "invalid_req.method"]
    ELSE IF ~Method_from(map.method).ok
    THEN [ok |-> FALSE, v |-> Method_from(map.method).v]
    ELSE IF map.url = Undefined THEN [ok |-> FALSE, v |-> "invalid_req.url"]
    ELSE IF ~Url_parse(map.url).ok THEN [ok |-> FALSE, v |-> Url_parse(map.url).v]
    ELSE IF map.headers = Undefined THEN [ok |-> FALSE, v |-> "invalid_req"]
    ELSE [ok |-> TRUE, v |-> "Request"]

\* the shapes of the `event` value of a host event: undefined, a value that
\* is no object, an object with a waitUntil function, an object without one
EventValues == {"undefined", "primitive", "extendable", "plain-object"}

\* Reflect::get(&js_event, "waitUntil"): throws on a target that is no
\* object, yields undefined for a property the object does not have
Reflect_get_waitUntil(event) ==
    CASE event = "primitive" -> [ok |-> FALSE, v |-> Undefined]
      [] event = "extendable" -> [ok |-> TRUE, v |-> "function"]
      [] OTHER -> [ok |-> TRUE, v |-> Undefined]

HostEvents ==
    [method : {"GET", "bogus", Undefined},
     url : {"https://example.com/", "nonsense", Undefined},
     headers : {"Headers", Undefined},
     event : EventValues]

(***************************************************************************)
(* Context (src/src/context.rs).                                           *)
(***************************************************************************)
DefaultContext ==
    [response |-> DefaultResponse,
     log_queue |-> <<>>,
     deferred |-> <<>>,
     default_content_type |-> None,
     internal_error |-> None]

defer(c, task) == [c EXCEPT !.deferred = Append(@, task)]

default_content_type(c, ct) == [c EXCEPT !.default_content_type = Some(ct)]

raise_internal_error(c, e) == [c EXCEPT !.internal_error = Some(e)]

\* mutant: the marker reads as set on every Context
is_internal_error_always(c) == Some([kind |-> "Other", msg |-> "db down"])

is_internal_error(c) == c.internal_error

\* impl AppendsLog for Context
log(c, e) == [c EXCEPT !.log_queue = Append(@, e)]

\* a log entry: severity, text, the status and error fields, and the call
\* that appended it (empty for the entries the library appends)
LogEntry(sev, txt, st, er, by) ==
    [severity |-> sev, text |-> txt, status |-> st, error |-> er, by |-> by]

\* impl Display for Error: the Debug form of the value
to_string(e) == <<e.kind, e.msg>>

(***************************************************************************)
(* ServiceConfig and the handler results (src/src/lib.rs).                 *)
(***************************************************************************)
OkResult == [is_err |-> FALSE, hr |-> [status |-> 200, text |-> <<>>]]
ErrResult(hr) == [is_err |-> TRUE, hr |-> hr]

\* mutant: the status of the response is left as the handlers set it
default_internal_error_handler_keeping_status(c) ==
    LET error == is_internal_error(c)
        c1 == log(c, LogEntry("Error", "InternalError", 0,
                     IF is_some(error) THEN to_string(unwrap(error))
                     ELSE <<"none">>, <<>>))
        r2 == content_type(c1.response, "text/plain; charset=utf-8").resp
    IN  [c1 EXCEPT !.response = text(r2, SorryText)]

default_internal_error_handler(c) ==
    LET error == is_internal_error(c)
        c1 == log(c, LogEntry("Error", "InternalError", 0,
                     IF is_some(error) THEN to_string(unwrap(error))
                     ELSE <<"none">>, <<>>))
        r1 == status(c1.response, 200)
        r2 == content_type(r1, "text/plain; charset=utf-8").resp
    IN  [c1 EXCEPT !.response = text(r2, SorryText)]

\* the function value ServiceConfig.internal_error_handler holds
internal_error_handler(kind, c) == default_internal_error_handler(c)

(***************************************************************************)
(* One invocation of service_request and the deferred future it submits.   *)
(***************************************************************************)
VARIABLES
    map,            \* the host event
    config,         \* ServiceConfig: number of handlers, internal-error handler
    pc,             \* position of service_request
    wait_func,      \* the value read from event.waitUntil
    ctx,            \* the Context
    i,              \* index of the handler the for loop is at (from 1)
    ops,            \* calls the handlers have made on the Context so far
    handler_result, \* the last handler's result
    response,       \* Some(Response) once take_response took it from ctx
    out,            \* Some(response map) once service_request returned Ok
    err,            \* Some(message) once service_request returned Err
    promise,        \* Some(DeferredData) once deferred_promise was called
    waited,         \* outcome of wait_func.call1: "none", "ok" or "err"
    dpc,            \* position of the deferred future
    tk,             \* index of the task the deferred loop is at (from 1)
    run_ctx,        \* RunContext.log_queue
    sending,        \* the entries handed to the logger.send in progress
    sink,           \* what the logger received: <<stream, entries>> per send
    console,        \* lines written to the host console
    calls,          \* history: one record per handle() invocation
    ieh_calls,      \* history: invocations of the internal-error handler
    dtrace,         \* history: events of the deferred future
    logged,         \* history: the entries appended to the Context, in order
    dhist,          \* history: entries appended to the RunContext, send results
    asset,          \* the StaticAssetHandler's handle(): its locals, its KV calls
    pair            \* two invocations of service_request side by side

vars ==
    <<map, config, pc, wait_func, ctx, i, ops, handler_result, out, err,
      promise, waited, dpc, tk, run_ctx, sending, sink, console, calls,
      ieh_calls, dtrace, response, logged, dhist, asset, pair>>

\* no StaticAssetHandler is configured; no second invocation is modelled
NoAsset == [stage |-> "none"]
NoPair == <<>>

req_vars == <<map, config, asset, pair>>
deferred_vars ==
    <<promise, waited, dpc, tk, run_ctx, sending, sink, console, dtrace, dhist>>
history_vars == <<calls, ieh_calls>>

Configs == [handlers : 0..MaxHandlers, internal_error_handler : {"default"}]

Init ==
    /\ map \in HostEvents
    /\ config \in Configs
    /\ pc = "start"
    /\ wait_func = Undefined
    /\ ctx = DefaultContext
    /\ i = 1
    /\ ops = 0
    /\ handler_result = OkResult
    /\ out = None
    /\ err = None
    /\ promise = None
    /\ waited = "none"
    /\ dpc = "none"
    /\ tk = 1
    /\ run_ctx = <<>>
    /\ sending = <<>>
    /\ sink = <<>>
    /\ console = <<>>
    /\ calls = <<>>
    /\ ieh_calls = 0
    /\ asset = NoAsset
    /\ pair = NoPair
    /\ dtrace = <<>>
    /\ response = None
    /\ logged = <<>>
    /\ dhist = [run_logs |-> <<>>, sends |-> <<>>]

\* service_request up to the for loop: unmarshal the event, create the Context
Unmarshal ==
    /\ pc = "start"
    /\ LET r == from_js(map)
           w == Reflect_get_waitUntil(map.event)
       IN  IF ~r.ok
           THEN /\ err' = Some(r.v)
                /\ pc' = "failed"
                /\ UNCHANGED wait_func
           ELSE IF map.event = Undefined
           THEN /\ err' = Some("missing event")
                /\ pc' = "failed"
                /\ UNCHANGED wait_func
           ELSE IF ~w.ok
           THEN /\ err' = Some("event without waitUntil")
                /\ pc' = "failed"
                /\ UNCHANGED wait_func
           ELSE /\ wait_func' = w.v
                /\ pc' = "loop"
                /\ UNCHANGED err
    /\ ctx' = DefaultContext
    /\ handler_result' = OkResult
    /\ UNCHANGED <<req_vars, response, logged, i, ops, out, deferred_vars, history_vars>>

\* the entries a step appended to a log queue
NewEntries(old, new) == SubSeq(new, Len(old) + 1, Len(new))

\* top of an iteration with the marker set: call the internal-error handler, break
DivertInternalError ==
    /\ pc = "loop"
    /\ i <= config.handlers
    /\ is_some(is_internal_error(ctx))
    /\ ctx' = internal_error_handler(config.internal_error_handler, ctx)
    /\ ieh_calls' = ieh_calls + 1
    /\ logged' = logged \o NewEntries(ctx.log_queue, ctx'.log_queue)
    /\ pc' = "finalize"
    /\ UNCHANGED <<req_vars, response, wait_func, i, ops, handler_result, out, err,
                   deferred_vars, calls>>

\* top of an iteration with no marker: call handler i and await it
InvokeHandler ==
    /\ pc = "loop"
    /\ i <= config.handlers
    /\ ~is_some(is_internal_error(ctx))
    /\ pc' = "handle"
    /\ calls' = Append(calls, [idx |-> i, made |-> {}, done |-> FALSE,
                               result |-> OkResult, resp |-> ctx.response])
    /\ UNCHANGED <<req_vars, response, logged, wait_func, ctx, i, ops, handler_result, out, err,
                   deferred_vars, ieh_calls>>

\* the handler list is exhausted
LoopEnd ==
    /\ pc = "loop"
    /\ i > config.handlers
    /\ pc' = "finalize"
    /\ UNCHANGED <<req_vars, response, logged, wait_func, ctx, i, ops, handler_result, out, err,
                   deferred_vars, history_vars>>

(***************************************************************************)
(* What a handler does between its invocation and its return: calls on     *)
(* ctx.response() and on the Context, in any order.                        *)
(***************************************************************************)
HandlerCall(c, name) ==
    /\ pc = "handle"
    /\ ops < MaxOps
    /\ ctx' = c
    /\ ops' = ops + 1
    /\ calls' = [calls EXCEPT ![Len(calls)].made = @ \cup {name}]
    /\ logged' = logged \o NewEntries(ctx.log_queue, c.log_queue)
    /\ UNCHANGED <<req_vars, response, pc, wait_func, i, handler_result, out, err,
                   deferred_vars, ieh_calls>>

SetResponse(r) == [ctx EXCEPT !.response = r]

StatusCall(s) == IF s = 200 THEN "status(200)" ELSE "status(other)"
BodyCall(b) == IF b = <<>> THEN "body(empty)" ELSE "body(bytes)"
JsonCall(v) == IF v = "serializable" THEN "json(ok)" ELSE "json(err)"

CallStatus ==
    \E s \in StatusValues :
        HandlerCall(SetResponse(status(ctx.response, s)), StatusCall(s))

CallBody ==
    \E b \in ByteValues :
        HandlerCall(SetResponse(body(ctx.response, b)), BodyCall(b))

CallText ==
    \E t \in TextValues :
        HandlerCall(SetResponse(text(ctx.response, t)), "text")

CallJson ==
    \E v \in JsonValues :
        HandlerCall(SetResponse(json(ctx.response, v).resp), JsonCall(v))

CallHeader ==
    \E k \in HeaderKeys, v \in HeaderValues :
        HandlerCall(SetResponse(header(ctx.response, k, v).resp), "header")

CallContentType ==
    \E v \in HeaderValues :
        HandlerCall(SetResponse(content_type(ctx.response, v).resp),
                    "content_type")

CallLog ==
    HandlerCall(log(ctx, LogEntry("Info", "handler", 0, <<>>,
                                  <<i, Len(ctx.log_queue)>>)), "log")

CallDefer ==
    HandlerCall(defer(ctx, <<i, Len(ctx.deferred)>>), "defer")

CallDefaultContentType ==
    HandlerCall(default_content_type(ctx, "text/html"), "default_content_type")

CallRaiseInternalError ==
    \E e \in Errors :
        HandlerCall(raise_internal_error(ctx, e), "raise_internal_error")

\* mutant: only a HandlerReturn stops the chain
chain_stops_on_err_only(result, r) == result.is_err

\* mutant: && in place of ||
chain_stops_on_both(result, r) == result.is_err /\ ~is_unset(r)

\* line 194: the handler set the response or returned a HandlerReturn
chain_stops(result, r) == result.is_err \/ ~is_unset(r)

\* handle() returns `result`: lines 192-197 of service_request
HandlerReturned(result) ==
    /\ pc = "handle"
    /\ handler_result' = result
    /\ calls' = [calls EXCEPT ![Len(calls)].done = TRUE,
                              ![Len(calls)].result = result,
                              ![Len(calls)].resp = ctx.response]
    /\ IF chain_stops(result, ctx.response)
       THEN /\ pc' = "finalize"
            /\ UNCHANGED i
       ELSE /\ pc' = "loop"
            /\ i' = i + 1
    /\ UNCHANGED <<req_vars, response, logged, wait_func, ctx, ops, out, err, deferred_vars,
                   ieh_calls>>

ReturnOk == HandlerReturned(OkResult)

ReturnErr == \E hr \in HandlerReturns : HandlerReturned(ErrResult(hr))

\* mutant: the response is read but left in the Context
take_response_leaving(c) == c

\* take_response, take_tasks, take_logs
take_response(c) == [c EXCEPT !.response = DefaultResponse]
take_tasks(c) == [c EXCEPT !.deferred = <<>>]
take_logs(c) == [c EXCEPT !.log_queue = <<>>]

\* mutant: a HandlerReturn is rendered on a fresh Response
finalize_response_on_fresh(c, hres) ==
    IF hres.is_err
    THEN [c EXCEPT !.response = text(status(DefaultResponse, hres.hr.status),
                                     hres.hr.text)]
    ELSE IF is_unset(c.response)
    THEN [c EXCEPT !.response = text(status(@, 404), NotFoundText)]
    ELSE c

\* mutant: a HandlerReturn discards the tasks along with the response
finalize_response_dropping_tasks(c, hres) ==
    IF hres.is_err
    THEN [c EXCEPT !.response = text(status(@, hres.hr.status), hres.hr.text),
                   !.deferred = <<>>]
    ELSE IF is_unset(c.response)
    THEN [c EXCEPT !.response = text(status(@, 404), NotFoundText)]
    ELSE c

\* mutant: the 404 fallback applied to every Ok result
finalize_response_always_404(c, hres) ==
    IF hres.is_err
    THEN [c EXCEPT !.response = text(status(@, hres.hr.status), hres.hr.text)]
    ELSE [c EXCEPT !.response = text(status(@, 404), NotFoundText)]

\* mutant: no fallback for an unset response
finalize_response_no_fallback(c, hres) ==
    IF hres.is_err
    THEN [c EXCEPT !.response = text(status(@, hres.hr.status), hres.hr.text)]
    ELSE c

\* mutant: the HandlerReturn applied only to a response still unset
finalize_response_hr_if_unset(c, hres) ==
    IF hres.is_err /\ is_unset(c.response)
    THEN [c EXCEPT !.response = text(status(@, hres.hr.status), hres.hr.text)]
    ELSE IF is_unset(c.response)
    THEN [c EXCEPT !.response = text(status(@, 404), NotFoundText)]
    ELSE c

\* lines 198-206: the HandlerReturn overwrite and the 404 fallback
finalize_response(c, hres) ==
    IF hres.is_err
    THEN [c EXCEPT !.response = text(status(@, hres.hr.status), hres.hr.text)]
    ELSE IF is_unset(c.response)
    THEN [c EXCEPT !.response = text(status(@, 404), NotFoundText)]
    ELSE c

\* Function.call1 on the value read from event.waitUntil
call1(f, accepted) == IF f = "function" /\ accepted THEN "ok" ELSE "err"

\* mutant: the trace reads the status from the Context after take_response
trace_status_from_ctx(c, r) == get_status(c.response)

\* line 209: the status field of the service trace entry
trace_status(c, r) == get_status(r)

\* mutant: a failed submission leaves service_request with `?`
after_call1_propagating(w) == IF w = "ok" THEN "respond" ELSE "failed"

\* line 216: `let _ =` drops the result of call1
after_call1(w) == "respond"

\* after the loop: finalize, take the response, trace, build the deferred
\* future (future_to_promise queues it) and submit it to waitUntil
Finalize ==
    /\ pc = "finalize"
    /\ LET c1 == finalize_response(ctx, handler_result)
           c2 == take_response(c1)
           c3 == log(c2, LogEntry("Verbose", "service",
                                   trace_status(c2, c1.response), <<>>, <<>>))
           data == [tasks |-> c3.deferred, logs |-> c3.log_queue]
       IN  /\ response' = Some(c1.response)
           /\ logged' = logged \o NewEntries(ctx.log_queue, c3.log_queue)
           /\ promise' = Some(data)
           /\ ctx' = take_logs(take_tasks(c3))
    /\ \E accepted \in BOOLEAN : waited' = call1(wait_func, accepted)
    /\ dpc' = "queued"
    /\ pc' = after_call1(waited')
    /\ UNCHANGED <<req_vars, wait_func, i, ops, handler_result, out, err, tk, run_ctx,
                   sending, sink, console, dtrace, dhist, history_vars>>

\* line 217: Ok(response.into_js())
Respond ==
    /\ pc = "respond"
    /\ out' = Some(into_js(unwrap(response)))
    /\ pc' = "returned"
    /\ UNCHANGED <<req_vars, response, logged, wait_func, ctx, i, ops,
                   handler_result, err, deferred_vars, history_vars>>

(***************************************************************************)
(* deferred_promise: the future handed to waitUntil.  future_to_promise    *)
(* queues it on the host's microtask queue, so it is polled only while     *)
(* service_request is not running: awaiting a handler, or returned.        *)
(***************************************************************************)
request_vars ==
    <<req_vars, pc, wait_func, ctx, i, ops, handler_result, out, err, history_vars,
      response, logged>>

args == unwrap(promise)

\* a send that returned: Ok delivers the entries, Err goes to log_log_error
send_result(ok, entries) ==
    /\ dhist' = [dhist EXCEPT !.sends = Append(@, ok)]
    /\ IF ok
       THEN /\ sink' = Append(sink, <<"http", entries>>)
            /\ UNCHANGED console
       ELSE /\ console' = Append(console, "Error sending logs")
            /\ UNCHANGED sink

\* mutant: the future is polled only while a handler is awaited
yields_only_in_handler(p) == p = "handle"

\* mutant: an await between the submission and the return
yields_before_return(p) == p \in {"handle", "respond", "returned", "failed"}

\* service_request has yielded: its only await is line 192, then its returns
yields(p) == p \in {"handle", "returned", "failed"}

\* first poll: logger.send("http", args.logs) is called and awaited
SendLogs ==
    /\ yields(pc)
    /\ dpc = "queued"
    /\ sending' = args.logs
    /\ dpc' = "send1"
    /\ dtrace' = Append(dtrace, <<"send1", "start">>)
    /\ UNCHANGED <<request_vars, promise, waited, tk, run_ctx, sink, console,
                   dhist>>

\* mutant: the RunContext starts from the handler-time entries
new_log_queue_from_logs(a) == a.logs

\* line 242: LogQueue::default()
new_log_queue(a) == <<>>

ok_of_last(h) == h.sends[Len(h.sends)]

\* mutant: a send failure ends the future with `?`
after_send_propagating(ok, next) == IF ok THEN next ELSE "rejected"

\* lines 238-240, 249-251: a failed send is logged and the future goes on
after_send(ok, next) == next

\* the first send returned: create the RunContext and enter the task loop
SendLogsDone ==
    /\ dpc = "send1"
    /\ \E ok \in BOOLEAN : send_result(ok, sending)
    /\ sending' = <<>>
    /\ run_ctx' = new_log_queue(args)
    /\ tk' = 1
    /\ dpc' = after_send(ok_of_last(dhist'), "tasks")
    /\ dtrace' = Append(dtrace, <<"send1", "done">>)
    /\ UNCHANGED <<request_vars, promise, waited>>

\* mutant: the tasks taken from the back of the list
nth_task_reversed(tasks, k) == tasks[Len(tasks) + 1 - k]

\* args.tasks.iter(): the k-th task of the loop
nth_task(tasks, k) == tasks[k]

\* t.run(&run_ctx) is called and awaited
RunTask ==
    /\ dpc = "tasks"
    /\ tk <= Len(args.tasks)
    /\ dpc' = "run"
    /\ dtrace' = Append(dtrace, <<"run", "start", nth_task(args.tasks, tk)>>)
    /\ UNCHANGED <<request_vars, promise, waited, tk, run_ctx, sending, sink,
                   console, dhist>>

\* the running task logs through RunContext::log
TaskLog ==
    /\ dpc = "run"
    /\ Len(run_ctx) < MaxRunLogs
    /\ run_ctx' = Append(run_ctx, LogEntry("Info", "task", 0, <<>>,
                                           <<nth_task(args.tasks, tk), Len(run_ctx)>>))
    /\ dhist' = [dhist EXCEPT !.run_logs = @ \o NewEntries(run_ctx, run_ctx')]
    /\ UNCHANGED <<request_vars, promise, waited, dpc, tk, sending, sink,
                   console, dtrace>>

\* the running task's run returned
RunTaskDone ==
    /\ dpc = "run"
    /\ tk' = tk + 1
    /\ dpc' = "tasks"
    /\ dtrace' = Append(dtrace, <<"run", "done", nth_task(args.tasks, tk)>>)
    /\ UNCHANGED <<request_vars, promise, waited, run_ctx, sending, sink, console,
                   dhist>>

\* after the last task: logger.send("http", lock_queue.take()) is called
SendTaskLogs ==
    /\ dpc = "tasks"
    /\ tk > Len(args.tasks)
    /\ sending' = run_ctx
    /\ run_ctx' = <<>>
    /\ dpc' = "send2"
    /\ dtrace' = Append(dtrace, <<"send2", "start">>)
    /\ UNCHANGED <<request_vars, promise, waited, tk, sink, console, dhist>>

\* the second send returned: the future resolves with undefined
SendTaskLogsDone ==
    /\ dpc = "send2"
    /\ \E ok \in BOOLEAN : send_result(ok, sending)
    /\ sending' = <<>>
    /\ dpc' = after_send(ok_of_last(dhist'), "resolved")
    /\ dtrace' = Append(dtrace, <<"send2", "done">>)
    /\ UNCHANGED <<request_vars, promise, waited, tk, run_ctx>>

Next ==
    \/ Unmarshal
    \/ DivertInternalError
    \/ InvokeHandler
    \/ LoopEnd
    \/ CallStatus
    \/ CallBody
    \/ CallText
    \/ CallJson
    \/ CallHeader
    \/ CallContentType
    \/ CallLog
    \/ CallDefer
    \/ CallDefaultContentType
    \/ CallRaiseInternalError
    \/ ReturnOk
    \/ ReturnErr
    \/ Finalize
    \/ Respond
    \/ SendLogs
    \/ SendLogsDone
    \/ RunTask
    \/ TaskLog
    \/ RunTaskDone
    \/ SendTaskLogs
    \/ SendTaskLogsDone

Spec == Init /\ [][Next]_vars

(***************************************************************************)
(* Properties of the handler chain.                                        *)
(***************************************************************************)
Returned == pc = "returned"
Raised(c) == "raise_internal_error" \in c.made
Passed(c) == c.done /\ ~c.result.is_err /\ c.resp.unset
Answered(c) == c.done /\ (c.result.is_err \/ ~c.resp.unset)
NoLaterCall(k) == \A m \in DOMAIN calls : calls[m].idx <= calls[k].idx
ErrorEntries(logs) ==
    {n \in DOMAIN logs : logs[n].severity = "Error"}
InternalErrorPage ==
    [status |-> 200,
     body |-> SorryText,
     headers |-> [NewHeaders EXCEPT !["content-type"] = "text/plain; charset=utf-8"]]
NotFoundBytes == <<78, 111, 116, 32, 70, 111, 117, 110, 100>>
CafeBytes == <<99, 97, 102, 195, 169>>

\* C1: when a handler calls raise_internal_error during its handle call, no
\* handler with a greater index is invoked in that invocation and the
\* configured internal-error handler is invoked exactly once, also when the
\* raising handler is the last of the list.
C1_InternalErrorDiversion ==
    Returned =>
        \A k \in DOMAIN calls :
            Raised(calls[k]) => NoLaterCall(k) /\ ieh_calls = 1

\* C2: when a handler raises an internal error, leaves the response unset
\* and returns Ok(()), with the default internal-error handler configured,
\* the host receives the internal-error page and exactly one Error entry
\* carrying the error is handed to the logger; never the 404 fallback.
C2_InternalErrorPage ==
    Returned /\ config.internal_error_handler = "default" =>
        \A k \in DOMAIN calls :
            Raised(calls[k]) /\ Passed(calls[k]) =>
                /\ unwrap(out) = InternalErrorPage
                /\ Cardinality(ErrorEntries(args.logs)) = 1
                /\ \A n \in ErrorEntries(args.logs) :
                       args.logs[n].error \in {to_string(e) : e \in Errors}

\* C3: once a handler returned Err(HandlerReturn) or returned with the
\* response no longer unset, no handler with a greater index is invoked.
C3_AtMostOneAnswer ==
    \A k \in DOMAIN calls : Answered(calls[k]) => NoLaterCall(k)

C3_Witness ==
    /\ Returned
    /\ config.handlers = 2
    /\ Len(calls) = 1
    /\ Answered(calls[1])

\* C4: handlers run in configured order: the k-th invocation is of handler
\* k, each handler is invoked at most once, and a handler is invoked only
\* once every earlier one has returned Ok(()) with the response unset.
C4_ConfiguredOrder ==
    /\ \A k \in DOMAIN calls : calls[k].idx = k
    /\ \A k \in DOMAIN calls : k < Len(calls) => Passed(calls[k])
    /\ Len(calls) <= config.handlers
    /\ pc = "handle" => ~calls[Len(calls)].done /\ calls[Len(calls)].idx = i

C4_Witness ==
    /\ pc = "handle"
    /\ Len(calls) = 2
    /\ calls[1].made # {}

\* C5: the response returned to the host is the one produced by the first
\* handler that answered: its HandlerReturn when it returned Err, otherwise
\* the response exactly as the handler left it (no 404 fallback, no change).
C5_FirstAnswer ==
    Returned =>
        \A k \in DOMAIN calls :
            Answered(calls[k]) =>
                IF calls[k].result.is_err
                THEN /\ unwrap(out).status = calls[k].result.hr.status
                     /\ unwrap(out).body = Utf8(calls[k].result.hr.text)
                ELSE unwrap(out) = into_js(calls[k].resp)

C5_Witness ==
    /\ Returned
    /\ Len(calls) = 2
    /\ ~calls[2].result.is_err
    /\ calls[2].made = {"status(other)", "text"}
    /\ unwrap(out).status = 201
    /\ unwrap(out).body = CafeBytes

\* C6: when every configured handler returns Ok(()) with the response unset
\* and none raises an internal error (an empty handler list included), the
\* host receives status 404 with body "Not Found".
C6_Fallthrough404 ==
    Returned /\ Len(calls) = config.handlers
             /\ (\A k \in DOMAIN calls : Passed(calls[k]) /\ ~Raised(calls[k])) =>
        /\ unwrap(out).status = 404
        /\ unwrap(out).body = NotFoundBytes

C6_Witness ==
    /\ Returned
    /\ config.handlers = 2
    /\ Len(calls) = 2
    /\ \A k \in DOMAIN calls : Passed(calls[k]) /\ ~Raised(calls[k])
    /\ calls[1].made = {"header"}

\* C7: when a handler returns Err(hr), the host receives status hr.status
\* and the UTF-8 bytes of hr.text as body, whatever status, body or text
\* calls were made on the response before.
C7_HandlerReturnOverrides ==
    Returned =>
        \A k \in DOMAIN calls :
            calls[k].done /\ calls[k].result.is_err =>
                /\ unwrap(out).status = calls[k].result.hr.status
                /\ unwrap(out).body = Utf8(calls[k].result.hr.text)
                /\ calls[k].result.hr.text = CafeText => unwrap(out).body = CafeBytes

C7_Witness ==
    /\ Returned
    /\ Len(calls) = 1
    /\ calls[1].result = ErrResult([status |-> 500, text |-> CafeText])
    /\ calls[1].made = {"status(other)", "body(empty)"}
    /\ unwrap(out).status = 500
    /\ unwrap(out).body = CafeBytes

\* C9: a handler that answers with status(200) and/or body("") and returns
\* Ok(()) halts the chain; the host receives status 200 with an empty body,
\* not the 404 fallback.
C9_EmptyAnswerBlocksFallthrough ==
    \A k \in DOMAIN calls :
        /\ calls[k].done
        /\ ~calls[k].result.is_err
        /\ calls[k].made \cap {"status(200)", "body(empty)"} # {}
        /\ calls[k].made \cap {"status(other)", "text", "json(ok)"} = {}
        => /\ NoLaterCall(k)
           /\ pc # "loop"
           /\ Returned => unwrap(out).status = 200 /\ unwrap(out).body = <<>>

C9_Witness ==
    /\ Returned
    /\ config.handlers = 2
    /\ Len(calls) = 1
    /\ calls[1].made = {"status(200)", "body(empty)"}
    /\ ~calls[1].result.is_err
    /\ unwrap(out).status = 200

(***************************************************************************)
(* The Response builder on its own: any sequence of at most MaxCalls       *)
(* builder calls applied to a fresh Response (held in ctx.response);       *)
(* calls records each call's name and whether it returned Ok.              *)
(***************************************************************************)
InitResponse ==
    /\ map = [method |-> "GET", url |-> "https://example.com/",
              headers |-> "Headers", event |-> "extendable"]
    /\ config = [handlers |-> 0, internal_error_handler |-> "default"]
    /\ pc = "builder"
    /\ wait_func = Undefined
    /\ ctx = DefaultContext
    /\ i = 1
    /\ ops = 0
    /\ handler_result = OkResult
    /\ out = None
    /\ err = None
    /\ promise = None
    /\ waited = "none"
    /\ dpc = "none"
    /\ tk = 1
    /\ run_ctx = <<>>
    /\ sending = <<>>
    /\ sink = <<>>
    /\ console = <<>>
    /\ calls = <<>>
    /\ ieh_calls = 0
    /\ asset = NoAsset
    /\ pair = NoPair
    /\ dtrace = <<>>
    /\ response = None
    /\ logged = <<>>
    /\ dhist = [run_logs |-> <<>>, sends |-> <<>>]

\* the Error variant of a builder result, "" for Ok
ErrorOf(res) == IF res.ok THEN "" ELSE res.err

BuilderCall(r, name, ok, e) ==
    /\ pc = "builder"
    /\ Len(calls) < MaxCalls
    /\ ctx' = [ctx EXCEPT !.response = r]
    /\ calls' = Append(calls, [name |-> name, ok |-> ok, err |-> e,
                               before |-> ctx.response])
    /\ UNCHANGED <<req_vars, response, logged, pc, wait_func, i, ops, handler_result, out, err,
                   deferred_vars, ieh_calls>>

BuildStatus ==
    \E s \in StatusValues : BuilderCall(status(ctx.response, s), "status", TRUE, "")

BuildBody ==
    \E b \in ByteValues : BuilderCall(body(ctx.response, b), "body", TRUE, "")

BuildText ==
    \E t \in TextValues : BuilderCall(text(ctx.response, t), "text", TRUE, "")

BuildJson ==
    \E v \in JsonValues :
        LET res == json(ctx.response, v) IN BuilderCall(res.resp, "json", res.ok, ErrorOf(res))

BuildHeader ==
    \E k \in HeaderKeys, v \in HeaderValues :
        LET res == header(ctx.response, k, v)
        IN  BuilderCall(res.resp, "header", res.ok, ErrorOf(res))

BuildContentType ==
    \E v \in HeaderValues :
        LET res == content_type(ctx.response, v)
        IN  BuilderCall(res.resp, "content_type", res.ok, ErrorOf(res))

NextResponse ==
    \/ BuildStatus
    \/ BuildBody
    \/ BuildText
    \/ BuildJson
    \/ BuildHeader
    \/ BuildContentType

SpecResponse == InitResponse /\ [][NextResponse]_vars

HeaderCalls == {"header", "content_type"}

\* C8 as stated: a sequence of builder calls on a fresh Response leaves
\* is_unset() true when it consists of header()/content_type() calls only,
\* and false when it contains a status(), body(), text() or json() call.
C8_UnsetAsStated ==
    /\ (\A k \in DOMAIN calls : calls[k].name \in HeaderCalls)
           => is_unset(ctx.response)
    /\ (\E k \in DOMAIN calls : calls[k].name \in {"status", "body", "text", "json"})
           => ~is_unset(ctx.response)

\* C8 (amended): a sequence of builder calls on a fresh Response leaves
\* is_unset() true when it consists of header()/content_type() calls only,
\* and false from the first status(), body(), text() or successful json()
\* call on, whatever builder calls follow.
C8_UnsetMonotonic ==
    /\ (\A k \in DOMAIN calls : calls[k].name \in HeaderCalls)
           => is_unset(ctx.response)
    /\ (\E k \in DOMAIN calls :
            \/ calls[k].name \in {"status", "body", "text"}
            \/ calls[k].name = "json" /\ calls[k].ok)
           => ~is_unset(ctx.response)

C8_Witness ==
    /\ pc = "builder"
    /\ Len(calls) = 3
    /\ calls[1].name = "header"
    /\ calls[2].name = "body"
    /\ calls[3].name = "content_type" /\ ~calls[3].ok
    /\ ~is_unset(ctx.response)

(***************************************************************************)
(* Properties of the deferred future.                                      *)
(***************************************************************************)
RECURSIVE ExpectedRuns(_)
ExpectedRuns(tasks) ==
    IF tasks = <<>> THEN <<>>
    ELSE <<<<"run", "start", Head(tasks)>>, <<"run", "done", Head(tasks)>>>>
         \o ExpectedRuns(Tail(tasks))

ExpectedTrace(tasks) ==
    <<<<"send1", "start">>, <<"send1", "done">>>>
    \o ExpectedRuns(tasks)
    \o <<<<"send2", "start">>, <<"send2", "done">>>>

IsPrefix(a, b) == Len(a) <= Len(b) /\ a = SubSeq(b, 1, Len(a))

\* the tasks of `tasks` are in the order defer() appended them
InAppendOrder(tasks) ==
    \A k \in DOMAIN tasks :
        /\ tasks[k][2] = k - 1
        /\ k > 1 => tasks[k - 1][1] <= tasks[k][1]

\* C10: in the deferred future the initial logger.send completes before the
\* first task's run starts, the tasks run one at a time in the order defer()
\* appended them, each starting after the previous one completed, and the
\* post-task logger.send starts after the last task's run completed.
C10_DeferredOrdering ==
    is_some(promise) =>
        /\ InAppendOrder(args.tasks)
        /\ IsPrefix(dtrace, ExpectedTrace(args.tasks))
        /\ dpc = "resolved" => dtrace = ExpectedTrace(args.tasks)

C10_Witness ==
    /\ dpc = "resolved"
    /\ Len(args.tasks) = 2
    /\ Len(dtrace) = 8
    /\ args.tasks[1] # args.tasks[2]

(***************************************************************************)
(* Properties of the hand-over from service_request to the deferred future.*)
(***************************************************************************)
\* the deferred future has been polled at least once
DeferredStarted == dpc \notin {"none", "queued"}

\* C11: no logger.send and no deferred task's run begins before
\* service_request has produced the marshalled response value for the host.
C11_DeferredAfterResponse ==
    /\ dtrace # <<>> => is_some(out) /\ Returned
    /\ DeferredStarted => is_some(out) /\ Returned
    /\ (sink # <<>> \/ console # <<>> \/ dhist.sends # <<>>) => is_some(out)

C11_Witness ==
    /\ dpc = "run"
    /\ dtrace[1] = <<"send1", "start">>
    /\ is_some(out)

\* the response of the invocation once the loop has ended
Finalized(r) ==
    /\ ~is_unset(r)
    /\ handler_result.is_err =>
           /\ r.status = handler_result.hr.status
           /\ r.body = Utf8(handler_result.hr.text)

\* C12: when waitUntil is called the handler chain has ended, the
\* HandlerReturn/404 finalization has been applied and the response has been
\* taken out of the Context; nothing changes the response's status, body or
\* headers after the submission.
C12_Submitted ==
    waited # "none" =>
        /\ pc \in {"respond", "returned"}
        /\ \A k \in DOMAIN calls : calls[k].done
        /\ is_some(response) /\ Finalized(unwrap(response))
        /\ ctx.response = DefaultResponse

C12_Frozen ==
    [][waited # "none" =>
          /\ response' = response
          /\ is_some(out') => out' = Some(into_js(unwrap(response)))]_vars

C12_FinalizedBeforeSubmission == []C12_Submitted /\ C12_Frozen

C12_Witness ==
    /\ waited = "ok"
    /\ Returned
    /\ handler_result.is_err
    /\ unwrap(out).status = 500
    /\ dpc = "resolved"

(***************************************************************************)
(* Properties of log delivery by the deferred future.                      *)
(***************************************************************************)
Range(q) == {q[k] : k \in DOMAIN q}
NoDuplicates(q) == \A m, n \in DOMAIN q : q[m] = q[n] => m = n
FailedSends == {k \in DOMAIN dhist.sends : ~dhist.sends[k]}

C14_State ==
    /\ dpc # "rejected"
    /\ Len(console) = Cardinality(FailedSends)
    /\ dpc = "resolved" =>
           /\ Len(dhist.sends) = 2
           /\ dtrace = ExpectedTrace(args.tasks)
    /\ (DeferredStarted /\ is_some(out)) =>
           out = Some(into_js(unwrap(response)))

C14_ResponseKept == [][is_some(out) => out' = out]_vars

WellFormedRequest ==
    /\ map.method = "GET"
    /\ map.url = "https://example.com/"
    /\ map.headers = "Headers"

\* the event sub-value is there and carries no waitUntil function
NoWaitUntil == map.event \in {"primitive", "plain-object"}

\* C15: if the host event's `event` sub-object has no waitUntil callback,
\* service_request fails with the error message "event without waitUntil"
\* and no handler is invoked.
C15_MissingWaitUntilFails ==
    (pc # "start" /\ WellFormedRequest /\ NoWaitUntil) =>
        /\ pc = "failed"
        /\ err = Some("event without waitUntil")
        /\ calls = <<>>

\* a host event that lacks method, url, headers or event, or carries an
\* unsupported method or a url that does not parse
InvalidEvent ==
    \/ map.method \in {Undefined, "bogus"}
    \/ map.url \in {Undefined, "nonsense"}
    \/ map.headers = Undefined
    \/ map.event = Undefined

\* C16: on a host event that lacks method, url, headers or event, or whose
\* method is unsupported or whose url does not parse, service_request returns
\* a host-level error value, no handler is invoked, the internal-error
\* handler is not invoked, nothing is submitted to waitUntil and the logger
\* receives no send.
C16_MarshallingFailsEarly ==
    (pc # "start" /\ InvalidEvent) =>
        /\ pc = "failed"
        /\ is_some(err) /\ out = None
        /\ calls = <<>>
        /\ ieh_calls = 0
        /\ waited = "none" /\ promise = None
        /\ dtrace = <<>> /\ sink = <<>> /\ dhist.sends = <<>>

C16_Witness ==
    /\ pc = "failed"
    /\ map.headers = Undefined
    /\ map.method = "GET"
    /\ map.url = "https://example.com/"
    /\ map.event = "extendable"
    /\ config.handlers = 2
    /\ err = Some("invalid_req")

\* C17: if calling waitUntil fails, service_request still returns Ok with the
\* finalized response, the one it returns when the submission succeeds.
C17_State ==
    waited = "err" =>
        /\ pc \in {"respond", "returned"}
        /\ err = None
        /\ Finalized(unwrap(response))
        /\ Returned => out = Some(into_js(unwrap(response)))

C17_SameResponse ==
    [][pc = "finalize" =>
          /\ response' = Some(finalize_response(ctx, handler_result).response)
          /\ pc' = "respond"]_vars

C17_SubmissionFailureIgnored == []C17_State /\ C17_SameResponse

C17_Witness ==
    /\ waited = "err"
    /\ wait_func = "function"
    /\ Returned
    /\ unwrap(out).status = 201

(***************************************************************************)
(* Properties of the Content-Type of a response.                           *)
(***************************************************************************)
\* no handler call of the invocation touched the response's headers
NoHeaderCall ==
    \A k \in DOMAIN calls :
        calls[k].made \cap {"header", "content_type", "json(ok)"} = {}

\* C18: if a handler calls Context::default_content_type(ct) and no
\* Content-Type header is set afterwards, the response carries Content-Type
\* ct; if a Content-Type header is set later, that later value is used.
C18_DefaultContentType ==
    (Returned /\ is_some(ctx.default_content_type) /\ ieh_calls = 0) =>
        /\ NoHeaderCall =>
               unwrap(out).headers["content-type"]
                   = unwrap(ctx.default_content_type)
        /\ \A k \in DOMAIN calls :
               (k = Len(calls) /\ is_some(calls[k].resp.headers)
                  /\ unwrap(calls[k].resp.headers)["content-type"] # Absent)
               => unwrap(out).headers = unwrap(calls[k].resp.headers)

\* the response after the k-th builder call
AfterCall(k) == IF k = Len(calls) THEN ctx.response ELSE calls[k + 1].before

\* C19: Response::header(k, v) with a value the host rejects returns
\* Error::InvalidHeaderValue and leaves is_unset(), the status and the body
\* as they were before the call.
C19_RejectedHeaderValue ==
    \A k \in DOMAIN calls :
        (pc = "builder" /\ calls[k].name = "header" /\ ~calls[k].ok) =>
            /\ calls[k].err = "InvalidHeaderValue"
            /\ is_unset(AfterCall(k)) = is_unset(calls[k].before)
            /\ AfterCall(k).status = calls[k].before.status
            /\ AfterCall(k).body = calls[k].before.body

(***************************************************************************)
(* Properties of the service trace.                                        *)
(***************************************************************************)
ServiceTraces(q) == {k \in DOMAIN q : q[k].text = "service"}

\* C20: every invocation that reaches the handler chain appends exactly one
\* Verbose service-trace entry; its status equals the status of the response
\* returned to the host; it is delivered in the initial log flush, after all
\* handler-time entries.
C20_ServiceTrace ==
    /\ pc \in {"start", "failed", "loop", "handle", "finalize"} =>
           ServiceTraces(logged) = {}
    /\ pc \in {"respond", "returned"} =>
           /\ ServiceTraces(logged) = {Len(logged)}
           /\ logged[Len(logged)].severity = "Verbose"
           /\ logged[Len(logged)].status = get_status(unwrap(response))
           /\ Returned => logged[Len(logged)].status = unwrap(out).status
    /\ ServiceTraces(dhist.run_logs) = {}
    /\ (dhist.sends # <<>> /\ dhist.sends[1]) =>
           /\ sink[1] = <<"http", logged>>
           /\ \A k \in DOMAIN sink : k > 1 => ServiceTraces(sink[k][2]) = {}

C20_Witness ==
    /\ Returned
    /\ unwrap(out).status = 404
    /\ Len(sink) = 1
    /\ Len(sink[1][2]) = 3
    /\ sink[1][2][3].status = 404

(***************************************************************************)
(* The default internal-error handler applied to any Context: a Response   *)
(* built by up to MaxCalls builder calls, with or without the marker.      *)
(***************************************************************************)
\* the deferred future does not exist
IdleDeferred ==
    /\ promise = None
    /\ waited = "none"
    /\ dpc = "none"
    /\ tk = 1
    /\ run_ctx = <<>>
    /\ sending = <<>>
    /\ sink = <<>>
    /\ console = <<>>
    /\ dtrace = <<>>
    /\ dhist = [run_logs |-> <<>>, sends |-> <<>>]

\* the log queues and markers a Context may hold when the handler is called
PriorLogs == {<<>>, <<LogEntry("Info", "handler", 0, <<>>, <<1, 0>>)>>}
Markers == {None} \cup {Some(e) : e \in Errors}

InitErrorPage ==
    /\ map = [method |-> "GET", url |-> "https://example.com/",
              headers |-> "Headers", event |-> "extendable"]
    /\ config = [handlers |-> 1, internal_error_handler |-> "default"]
    /\ pc = "builder"
    /\ wait_func = Undefined
    /\ \E q \in PriorLogs, m \in Markers :
           /\ ctx = [DefaultContext EXCEPT !.log_queue = q, !.internal_error = m]
           /\ logged = q
    /\ i = 1
    /\ ops = 0
    /\ handler_result = OkResult
    /\ out = None
    /\ err = None
    /\ calls = <<>>
    /\ ieh_calls = 0
    /\ asset = NoAsset
    /\ pair = NoPair
    /\ response = None
    /\ IdleDeferred

\* (config.internal_error_handler)(&req, &mut ctx)
CallInternalErrorHandler ==
    /\ pc = "builder"
    /\ ctx' = internal_error_handler(config.internal_error_handler, ctx)
    /\ ieh_calls' = ieh_calls + 1
    /\ pc' = "handled"
    /\ UNCHANGED <<req_vars, response, logged, wait_func, i, ops, handler_result,
                   out, err, deferred_vars, calls>>

NextErrorPage ==
    \/ BuildStatus
    \/ BuildBody
    \/ BuildText
    \/ BuildJson
    \/ BuildHeader
    \/ BuildContentType
    \/ CallInternalErrorHandler

SpecErrorPage == InitErrorPage /\ [][NextErrorPage]_vars

\* C21: the default internal-error handler, invoked with the marker set to e,
\* appends exactly one Error-severity log entry whose error field is
\* e.to_string() ("none" when no marker is set) and leaves the response with
\* status 200, Content-Type text/plain; charset=utf-8, the "Sorry ..." body
\* and is_unset() false, whatever the response held before.
C21_DefaultErrorPage ==
    pc = "handled" =>
        /\ Len(ctx.log_queue) = Len(logged) + 1
        /\ SubSeq(ctx.log_queue, 1, Len(logged)) = logged
        /\ LET entry == ctx.log_queue[Len(ctx.log_queue)]
           IN  /\ entry.severity = "Error"
               /\ entry.error = IF is_some(ctx.internal_error)
                                THEN to_string(unwrap(ctx.internal_error))
                                ELSE <<"none">>
        /\ into_js(ctx.response) = InternalErrorPage
        /\ ~is_unset(ctx.response)

C21_Witness ==
    /\ pc = "handled"
    /\ is_some(ctx.internal_error)
    /\ Len(calls) = 3
    /\ calls[1].name = "status" /\ calls[2].before.status = 201
    /\ calls[2].name = "header" /\ calls[2].ok
    /\ calls[3].name = "text"
    /\ Len(ctx.log_queue) = 2

(***************************************************************************)
(* Method::from applied to spellings of method names (src/src/method.rs).  *)
(***************************************************************************)
\* str::to_lowercase of the names Display produces
to_lowercase(s) ==
    CASE s = "GET" -> "get"
      [] s = "POST" -> "post"
      [] s = "PUT" -> "put"
      [] s = "DELETE" -> "delete"
      [] s = "HEAD" -> "head"
      [] s = "OPTIONS" -> "options"

\* spellings of a verb's name that mix upper and lower case letters
MixedCase(m) ==
    CASE m = "Method::GET" -> {"Get", "gET"}
      [] m = "Method::POST" -> {"Post", "pOsT"}
      [] m = "Method::PUT" -> {"Put"}
      [] m = "Method::DELETE" -> {"Delete"}
      [] m = "Method::HEAD" -> {"Head", "heaD"}
      [] m = "Method::OPTIONS" -> {"Options"}

\* strings that name no supported verb
NoVerb == {"bogus", "none", "", "PATCH"}

InitMethod ==
    /\ map = [method |-> "GET", url |-> "https://example.com/",
              headers |-> "Headers", event |-> "extendable"]
    /\ config = [handlers |-> 0, internal_error_handler |-> "default"]
    /\ pc = "method"
    /\ wait_func = Undefined
    /\ ctx = DefaultContext
    /\ i = 1
    /\ ops = 0
    /\ handler_result = OkResult
    /\ out = None
    /\ err = None
    /\ calls = <<>>
    /\ ieh_calls = 0
    /\ asset = NoAsset
    /\ pair = NoPair
    /\ response = None
    /\ logged = <<>>
    /\ IdleDeferred

\* Method::from(s), s a spelling of kind `name` related to the verb `m`
ParseCall(name, m, s) ==
    /\ pc = "method"
    /\ Len(calls) < MaxCalls
    /\ calls' = Append(calls, [name |-> name, verb |-> m, input |-> s,
                               ok |-> Method_from(s).ok, v |-> Method_from(s).v])
    /\ UNCHANGED <<req_vars, response, logged, pc, wait_func, ctx, i, ops,
                   handler_result, out, err, deferred_vars, ieh_calls>>

ParseDisplayed == \E m \in Methods : ParseCall("displayed", m, Method_fmt(m))

ParseLowercase ==
    \E m \in Methods : ParseCall("lowercase", m, to_lowercase(Method_fmt(m)))

ParseMixedCase ==
    \E m \in Methods : \E s \in MixedCase(m) : ParseCall("mixed", m, s)

ParseNoVerb == \E s \in NoVerb : ParseCall("no verb", "", s)

NextMethod ==
    \/ ParseDisplayed
    \/ ParseLowercase
    \/ ParseMixedCase
    \/ ParseNoVerb

SpecMethod == InitMethod /\ [][NextMethod]_vars

\* C22: for every supported verb V, Method::from(V.to_string()) is V and
\* Method::from of the lower-case form of V.to_string() is V; Method::from of
\* a string that names no supported verb ("bogus", "none") fails.
C22_MethodRoundTrip ==
    \A k \in DOMAIN calls :
        /\ calls[k].name \in {"displayed", "lowercase"} =>
               calls[k].ok /\ calls[k].v = calls[k].verb
        /\ calls[k].name = "no verb" => ~calls[k].ok

C22_Witness ==
    /\ Len(calls) = 3
    /\ calls[1].input = "HEAD" /\ calls[1].v = "Method::HEAD"
    /\ calls[2].input = "options" /\ calls[2].v = "Method::OPTIONS"
    /\ calls[3].input = "none" /\ ~calls[3].ok

MaxCookieLen == 4

\* 'a', '=', ';', ' ' and the two-byte 'e' with acute accent
CookieChars == {97, 61, 59, 32, 233}
CookieNames == {<<97>>, <<97, 97>>}

CookieHeaders ==
    UNION {[1..n -> CookieChars] : n \in 0..MaxCookieLen}

\* str::len
str_len(s) == Len(Utf8(s))

\* the number of code points before byte offset n, -1 when n falls inside one
CharsBefore(s, n) ==
    LET ks == {k \in 0..Len(s) : str_len(SubSeq(s, 1, k)) = n}
    IN  IF ks = {} THEN -1 ELSE CHOOSE k \in ks : TRUE

\* str::split(';')
RECURSIVE split(_, _)
split(s, sep) ==
    LET at == {k \in DOMAIN s : s[k] = sep}
    IN  IF at = {} THEN <<s>>
        ELSE LET k == CHOOSE m \in at : \A n \in at : m <= n
             IN  <<SubSeq(s, 1, k - 1)>> \o split(SubSeq(s, k + 1, Len(s)), sep)

\* str::trim
RECURSIVE trim_start(_)
trim_start(s) ==
    IF s # <<>> /\ Head(s) = 32 THEN trim_start(Tail(s)) ELSE s

RECURSIVE trim_end(_)
trim_end(s) ==
    IF s # <<>> /\ s[Len(s)] = 32 THEN trim_end(SubSeq(s, 1, Len(s) - 1)) ELSE s

trim(s) == trim_end(trim_start(s))

\* the result of a call: a value, or a panic
Value(v) == [panic |-> FALSE, v |-> v]
Panic == [panic |-> TRUE, v |-> None]

\* cookie_value: split_at panics off a char boundary
cookie_value(part, name) ==
    IF str_len(part) > str_len(name)
    THEN LET k == CharsBefore(part, str_len(name))
         IN  IF k = -1 THEN Panic
             ELSE LET left == SubSeq(part, 1, k)
                      right == SubSeq(part, k + 1, Len(part))
                  IN  IF left = name /\ right # <<>> /\ Head(right) = 61
                      THEN Value(Some(Tail(right)))
                      ELSE Value(None)
    ELSE Value(None)

\* .map(|s| s.trim()).find_map(|part| cookie_value(part, cookie_name))
RECURSIVE find_map(_, _)
find_map(parts, name) ==
    IF parts = <<>> THEN Value(None)
    ELSE LET r == cookie_value(trim(Head(parts)), name)
         IN  IF r.panic \/ is_some(r.v) THEN r ELSE find_map(Tail(parts), name)

get_cookie_value(headers, name) ==
    IF is_some(headers.cookie)
    THEN find_map(split(unwrap(headers.cookie), 59), name)
    ELSE Value(None)

InitCookie ==
    /\ \E h \in {None} \cup {Some(c) : c \in CookieHeaders} :
           map = [method |-> "GET", url |-> "https://example.com/",
                  headers |-> [cookie |-> h], event |-> "extendable"]
    /\ config = [handlers |-> 0, internal_error_handler |-> "default"]
    /\ pc = "request"
    /\ wait_func = Undefined
    /\ ctx = DefaultContext
    /\ i = 1
    /\ ops = 0
    /\ handler_result = OkResult
    /\ out = None
    /\ err = None
    /\ calls = <<>>
    /\ ieh_calls = 0
    /\ asset = NoAsset
    /\ pair = NoPair
    /\ response = None
    /\ logged = <<>>
    /\ IdleDeferred

\* req.get_cookie_value(name)
GetCookieValue ==
    /\ pc = "request"
    /\ calls = <<>>
    /\ \E name \in CookieNames :
           calls' = <<[name |-> name,
                       result |-> get_cookie_value(map.headers, name)]>>
    /\ UNCHANGED <<req_vars, response, logged, pc, wait_func, ctx, i, ops,
                   handler_result, out, err, deferred_vars, ieh_calls>>

SpecCookie == InitCookie /\ [][GetCookieValue]_vars

\* the part is of the form name=value, with exactly the requested name
NamedPart(part, name) ==
    /\ Len(part) > Len(name)
    /\ SubSeq(part, 1, Len(name)) = name
    /\ part[Len(name) + 1] = 61

\* the value of the first part of the header that carries the name
ExpectedCookie(cookie, name) ==
    IF cookie = None THEN None
    ELSE LET parts == split(unwrap(cookie), 59)
             hits == {k \in DOMAIN parts : NamedPart(trim(parts[k]), name)}
         IN  IF hits = {} THEN None
             ELSE LET k == CHOOSE m \in hits : \A n \in hits : m <= n
                  IN  Some(SubSeq(trim(parts[k]), Len(name) + 2,
                                  Len(trim(parts[k]))))

\* C24: get_cookie_value(name) splits the Cookie header on ';', trims each
\* part and returns the value of the first part name=value whose name is
\* exactly the requested one (a part whose name only starts with it does not
\* match); "name=" yields Some(""); a name in no part, or an absent Cookie
\* header, yields None.
C24_CookieValue ==
    \A k \in DOMAIN calls :
        /\ ~calls[k].result.panic
        /\ calls[k].result.v = ExpectedCookie(map.headers.cookie, calls[k].name)

(***************************************************************************)
(* Two invocations of service_request, each with its own event, its own    *)
(* ServiceConfig (one handler, its own logger) and its own deferred        *)
(* future, interleaved at their awaits.  pair.ctxs holds the Contexts,     *)
(* pair.inv the locals of each call.                                       *)
(***************************************************************************)
MaxPairOps == 2

Invs == {1, 2}

\* mutant: one Context shared by all invocations
ctx_of_shared(n) == 1

\* line 185: `let mut ctx = Context::default()`, a local of each call
ctx_of(n) == n

InitInv ==
    [pc |-> "start", ops |-> 0, hres |-> OkResult, out |-> None,
     promise |-> None, dpc |-> "none", tk |-> 1, run_ctx |-> <<>>,
     sink |-> <<>>, ran |-> <<>>, alone |-> DefaultContext]

single_vars ==
    <<map, config, asset, pc, wait_func, ctx, i, ops, handler_result, out, err,
      response, logged, calls, ieh_calls, deferred_vars>>

InitPair ==
    /\ map = [method |-> "GET", url |-> "https://example.com/",
              headers |-> "Headers", event |-> "extendable"]
    /\ config = [handlers |-> 1, internal_error_handler |-> "default"]
    /\ pc = "pair"
    /\ wait_func = Undefined
    /\ ctx = DefaultContext
    /\ i = 1
    /\ ops = 0
    /\ handler_result = OkResult
    /\ out = None
    /\ err = None
    /\ calls = <<>>
    /\ ieh_calls = 0
    /\ response = None
    /\ logged = <<>>
    /\ asset = NoAsset
    /\ IdleDeferred
    /\ pair = [ctxs |-> [n \in Invs |-> DefaultContext],
               inv |-> [n \in Invs |-> InitInv]]

Inv(n) == pair.inv[n]
CtxOf(n) == pair.ctxs[ctx_of(n)]

\* a step of invocation n: its locals become v, its Context becomes c
PairStep(n, v, c) ==
    /\ pc = "pair"
    /\ pair' = [pair EXCEPT !.inv[n] = v, !.ctxs[ctx_of(n)] = c]
    /\ UNCHANGED single_vars

\* what the handler of invocation n may call on its Context
HandlerOps == {"log", "defer", "status"}
HandlerOp(c, n, name) ==
    CASE name = "log" ->
             log(c, LogEntry("Info", "handler", 0, <<>>, <<n, Len(c.log_queue)>>))
      [] name = "defer" -> defer(c, <<n, Len(c.deferred)>>)
      [] name = "status" -> [c EXCEPT !.response = status(@, 200 + n)]

\* lines 176-192: unmarshal, create the Context, call the handler and await
PairStart ==
    \E n \in Invs :
        /\ Inv(n).pc = "start"
        /\ PairStep(n, [Inv(n) EXCEPT !.pc = "handle"], DefaultContext)

\* the handler acts on the Context it was given
PairHandlerCall ==
    \E n \in Invs :
        /\ Inv(n).pc = "handle"
        /\ Inv(n).ops < MaxPairOps
        /\ \E name \in HandlerOps :
               PairStep(n, [Inv(n) EXCEPT !.ops = @ + 1,
                                          !.alone = HandlerOp(@, n, name)],
                        HandlerOp(CtxOf(n), n, name))

\* lines 192-217: the handler returned; finalize, submit, return
PairReturn ==
    \E n \in Invs :
        /\ Inv(n).pc = "handle"
        /\ \E result \in {OkResult} \cup {ErrResult(hr) : hr \in HandlerReturns} :
               LET c1 == finalize_response(CtxOf(n), result)
                   c2 == take_response(c1)
                   c3 == log(c2, LogEntry("Verbose", "service",
                                           trace_status(c2, c1.response), <<>>, <<>>))
               IN  PairStep(n, [Inv(n) EXCEPT
                                    !.pc = "returned",
                                    !.hres = result,
                                    !.out = Some(into_js(c1.response)),
                                    !.promise = Some([tasks |-> c3.deferred,
                                                      logs |-> c3.log_queue]),
                                    !.dpc = "queued"],
                            take_logs(take_tasks(c3)))

\* lines 238-243: the first send, then the RunContext
PairSendLogs ==
    \E n \in Invs :
        /\ Inv(n).dpc = "queued"
        /\ PairStep(n, [Inv(n) EXCEPT
                            !.sink = Append(@, <<"http", unwrap(Inv(n).promise).logs>>),
                            !.run_ctx = new_log_queue(unwrap(Inv(n).promise)),
                            !.tk = 1,
                            !.dpc = "tasks"],
                    CtxOf(n))

\* lines 244-246: one task runs, and may log through the RunContext
PairRunTask ==
    \E n \in Invs :
        /\ Inv(n).dpc = "tasks"
        /\ Inv(n).tk <= Len(unwrap(Inv(n).promise).tasks)
        /\ \E logs \in BOOLEAN :
               LET t == nth_task(unwrap(Inv(n).promise).tasks, Inv(n).tk)
                   e == LogEntry("Info", "task", 0, <<>>, <<t, Len(Inv(n).run_ctx)>>)
               IN  PairStep(n, [Inv(n) EXCEPT
                                    !.ran = Append(@, t),
                                    !.run_ctx = IF logs THEN Append(@, e) ELSE @,
                                    !.tk = @ + 1],
                            CtxOf(n))

\* lines 248-253: the second send; the future resolves
PairSendTaskLogs ==
    \E n \in Invs :
        /\ Inv(n).dpc = "tasks"
        /\ Inv(n).tk > Len(unwrap(Inv(n).promise).tasks)
        /\ PairStep(n, [Inv(n) EXCEPT
                            !.sink = Append(@, <<"http", Inv(n).run_ctx>>),
                            !.run_ctx = <<>>,
                            !.dpc = "resolved"],
                    CtxOf(n))

NextPair ==
    \/ PairStart
    \/ PairHandlerCall
    \/ PairReturn
    \/ PairSendLogs
    \/ PairRunTask
    \/ PairSendTaskLogs

SpecPair == InitPair /\ [][NextPair]_vars

\* what invocation n returns, logs and runs when it runs alone: the same
\* handler calls applied to a Context no other invocation touches
AloneResponse(n) == finalize_response(Inv(n).alone, Inv(n).hres).response
AloneLogs(n) ==
    Append(Inv(n).alone.log_queue,
           LogEntry("Verbose", "service", get_status(AloneResponse(n)), <<>>, <<>>))
AloneTasks(n) == Inv(n).alone.deferred

\* the handler entries and the task entries of `entries` come from invocation n
OwnEntries(entries, n) ==
    \A k \in DOMAIN entries :
        /\ entries[k].text = "handler" => entries[k].by[1] = n
        /\ entries[k].text = "task" => entries[k].by[1] \in Range(AloneTasks(n))

IndexHtml == <<105, 110, 100, 101, 120, 46, 104, 116, 109, 108>>

\* the bytes KV holds for an asset
AssetBytes == <<104, 105>>

\* `as u64` of an i64: a negative value wraps above every non-negative one
as_u64(t) == [wrapped |-> t < 0, v |-> t]
le_u64(a, b) ==
    IF a.wrapped = b.wrapped THEN a.v <= b.v ELSE b.wrapped

\* DateTime::parse_from_rfc2822(s).timestamp() of the header values used
Rfc2822Seconds ==
    ("Wed, 31 Dec 1969 23:59:59 +0000" :> -1)
    @@ ("Thu, 01 Jan 1970 00:00:05 +0000" :> 5)
    @@ ("Thu, 01 Jan 1970 00:00:10 +0000" :> 10)

\* impl FromStr for HttpDate
HttpDate_from_str(s) ==
    IF s \in DOMAIN Rfc2822Seconds
    THEN [ok |-> TRUE, v |-> as_u64(Rfc2822Seconds[s])]
    ELSE [ok |-> FALSE, v |-> as_u64(0)]

\* HttpDate::from(md.modified).to_string()
HttpDate_to_string(t) ==
    IF t = 10 THEN "Thu, 01 Jan 1970 00:00:10 +0000"
    ELSE "Thu, 01 Jan 1970 00:00:00 +0000"

\* media_type: by the extension of the path
media_type(path) ==
    IF Len(path) >= 5 /\ SubSeq(path, Len(path) - 4, Len(path)) = <<46, 104, 116, 109, 108>>
    THEN Some("text/html; charset=utf-8")
    ELSE None

AssetEvents ==
    [method : {"GET", "HEAD", "POST"},
     url : DOMAIN Url_path,
     headers : {"Headers"},
     if_modified_since : {None, Some("garbage")} \cup {Some(d) : d \in DOMAIN Rfc2822Seconds},
     event : {"extendable"}]

\* the index lists nothing, "a.html", or "a.html" and "f/index.html"; every
\* asset was modified 10 seconds after the epoch
KVs ==
    [index_ok : BOOLEAN,
     entries : {{}, {<<97, 46, 104, 116, 109, 108>>},
                {<<97, 46, 104, 116, 109, 108>>, <<102, 47>> \o IndexHtml}},
     modified : {10},
     fetch_ok : BOOLEAN]

\* KVAssets::lookup_key
lookup_key(kv, key) ==
    IF ~kv.index_ok THEN [ok |-> FALSE, md |-> None]
    ELSE IF key \in kv.entries
    THEN [ok |-> TRUE, md |-> Some([modified |-> kv.modified, path |-> key])]
    ELSE [ok |-> TRUE, md |-> None]

handler_return(s, t) == [status |-> s, text |-> t]

remove_leading_slash(path) ==
    IF path # <<>> /\ Head(path) = 47 THEN Tail(path) ELSE path

\* lines 117-121: format!("{}/index.html", path) for a path ending in '/'
asset_key(path) ==
    IF path # <<>> /\ path[Len(path)] = 47
    THEN path \o <<47>> \o IndexHtml
    ELSE path

\* Request::get_header of the one header the handler reads
get_header(m, name) ==
    IF name = "if-modified-since" THEN m.if_modified_since ELSE None

\* outcomes of check_metadata: Err(HandlerReturn), Ok(None), Ok(Some(md))
Meta(c, kind, hr, md) == [ctx |-> c, kind |-> kind, hr |-> hr, md |-> md]

\* "Not Modified"
NotModifiedText == <<78, 111, 116, 32, 77, 111, 100, 105, 102, 105, 101, 100>>

\* mutant: a path the index does not list ends the request with 404
check_metadata_not_found_404(kv, path, m, c) ==
    LET r == lookup_key(kv, path)
    IN  IF ~r.ok
        THEN Meta(raise_internal_error(c, [kind |-> "Other", msg |-> "asset index unreadable"]),
                  "err", handler_return(200, <<>>), None)
        ELSE IF ~is_some(r.md) THEN Meta(c, "err", handler_return(404, NotFoundText), None)
        ELSE LET md == unwrap(r.md)
                 dt == get_header(m, "if-modified-since")
                 http_date == IF is_some(dt) THEN HttpDate_from_str(unwrap(dt))
                              ELSE [ok |-> FALSE, v |-> as_u64(0)]
             IN  IF is_some(dt) /\ http_date.ok
                    /\ le_u64(as_u64(md.modified), http_date.v)
                 THEN Meta(c, "err", handler_return(304, NotModifiedText), None)
                 ELSE Meta(c, "some", handler_return(200, <<>>), Some(md))

\* check_metadata, lines 54-100 (the HEAD branch of lines 86-96 is commented
\* out in the source)
check_metadata(kv, path, m, c) ==
    LET r == lookup_key(kv, path)
    IN  IF ~r.ok
        THEN Meta(raise_internal_error(c, [kind |-> "Other", msg |-> "asset index unreadable"]),
                  "err", handler_return(200, <<>>), None)
        ELSE IF ~is_some(r.md) THEN Meta(c, "none", handler_return(200, <<>>), None)
        ELSE LET md == unwrap(r.md)
                 dt == get_header(m, "if-modified-since")
                 http_date == IF is_some(dt) THEN HttpDate_from_str(unwrap(dt))
                              ELSE [ok |-> FALSE, v |-> as_u64(0)]
             IN  IF is_some(dt) /\ http_date.ok
                    /\ le_u64(as_u64(md.modified), http_date.v)
                 THEN Meta(c, "err", handler_return(304, NotModifiedText), None)
                 ELSE Meta(c, "some", handler_return(200, <<>>), Some(md))

\* the handler's locals before handle() is entered
IdleAsset ==
    [stage |-> "idle", result |-> OkResult, md |-> None,
     lookups |-> <<>>, fetches |-> <<>>, has |-> None]

InitAssets ==
    /\ map \in AssetEvents
    /\ config \in [handlers : 1..MaxHandlers, internal_error_handler : {"default"},
                   assets : KVs]
    /\ asset = IdleAsset
    /\ pair = NoPair
    /\ pc = "start"
    /\ wait_func = Undefined
    /\ ctx = DefaultContext
    /\ i = 1
    /\ ops = 0
    /\ handler_result = OkResult
    /\ out = None
    /\ err = None
    /\ promise = None
    /\ waited = "none"
    /\ dpc = "none"
    /\ tk = 1
    /\ run_ctx = <<>>
    /\ sending = <<>>
    /\ sink = <<>>
    /\ console = <<>>
    /\ calls = <<>>
    /\ ieh_calls = 0
    /\ dtrace = <<>>
    /\ response = None
    /\ logged = <<>>
    /\ dhist = [run_logs |-> <<>>, sends |-> <<>>]

asset_vars ==
    <<map, config, pair, pc, wait_func, i, ops, handler_result, out, err,
      response, logged, deferred_vars, history_vars>>

\* handle(), lines 111-129: up to the await of get_kv_value, or to a return
AssetHandle ==
    /\ pc = "handle"
    /\ i = 1
    /\ asset.stage = "idle"
    /\ IF (Method_from(map.method).v \notin {"Method::GET", "Method::HEAD"})
          \/ remove_leading_slash(Url_path[Url_parse(map.url).v]) = <<>>
       THEN /\ asset' = [asset EXCEPT !.stage = "done", !.result = OkResult]
            /\ UNCHANGED ctx
       ELSE LET path == asset_key(remove_leading_slash(Url_path[Url_parse(map.url).v]))
                r == check_metadata(config.assets, path, map, ctx)
                looked == [asset EXCEPT !.lookups = Append(@, path)]
            IN  /\ ctx' = r.ctx
                /\ asset' =
                     CASE r.kind = "err" ->
                            [looked EXCEPT !.stage = "done", !.result = ErrResult(r.hr)]
                       [] r.kind = "none" ->
                            [looked EXCEPT !.stage = "done", !.result = OkResult]
                       [] r.kind = "some" ->
                            [looked EXCEPT !.stage = "fetching", !.md = r.md,
                                           !.fetches = Append(@, unwrap(r.md).path)]
    /\ UNCHANGED asset_vars

\* lines 129-152: get_kv_value answered
AssetFetched ==
    /\ pc = "handle"
    /\ i = 1
    /\ asset.stage = "fetching"
    /\ LET md == unwrap(asset.md)
           mt == media_type(md.path)
           r1 == IF is_some(mt)
                 THEN header(ctx.response, "Content-Type", unwrap(mt)).resp
                 ELSE ctx.response
           r2 == header(r1, "last-modified", HttpDate_to_string(md.modified)).resp
       IN  IF config.assets.fetch_ok
           THEN ctx' = [ctx EXCEPT !.response = body(r2, AssetBytes)]
           ELSE ctx' = raise_internal_error(ctx, [kind |-> "Other",
                                                     msg |-> "static asset lookup failed"])
    /\ asset' = [asset EXCEPT !.stage = "done", !.result = OkResult]
    /\ UNCHANGED asset_vars

\* handle() returns to the loop of service_request
AssetReturn ==
    /\ i = 1
    /\ asset.stage = "done"
    /\ HandlerReturned(asset.result)

\* has_asset, lines 44-47: the key is the url path as it stands
has_asset(kv, m) ==
    /\ Method_from(m.method).v \in {"Method::GET", "Method::HEAD"}
    /\ LET r == lookup_key(kv, Url_path[Url_parse(m.url).v])
       IN  r.ok /\ is_some(r.md)

\* the application asks has_asset about the request while it is served
HasAsset ==
    /\ pc = "handle"
    /\ asset.has = None
    /\ asset' = [asset EXCEPT !.has = Some(has_asset(config.assets, map))]
    /\ UNCHANGED <<asset_vars, ctx>>

\* a handler after the StaticAssetHandler: it may answer with a text
NextHandler == i > 1 /\ (CallText \/ ReturnOk)

NextAssets ==
    \/ Unmarshal
    \/ DivertInternalError
    \/ InvokeHandler
    \/ LoopEnd
    \/ AssetHandle
    \/ AssetFetched
    \/ AssetReturn
    \/ HasAsset
    \/ NextHandler
    \/ Finalize
    \/ Respond

SpecAssets == InitAssets /\ [][NextAssets]_vars


\* C26: when the index lookup fails, the internal-error handler is invoked
\* and the client receives the error page
C26_LookupFailureErrorPage ==
    (Returned /\ asset.stage = "done" /\ asset.lookups # <<>>
              /\ ~config.assets.index_ok)
        => /\ ieh_calls = 1
           /\ unwrap(out) = InternalErrorPage


\* the request path with its leading slash removed, and the request method
RequestPath == remove_leading_slash(Url_path[map.url])
GetOrHead == map.method \in {"GET", "HEAD"}
EndsWithSlash(path) == path # <<>> /\ path[Len(path)] = 47

\* C27: for a path that ends with '/', the key looked up in the index is the
\* folder path followed by "index.html", with one slash between the two
C27_FolderIndexKey ==
    (asset.lookups # <<>> /\ GetOrHead /\ EndsWithSlash(RequestPath))
        => asset.lookups[1] = RequestPath \o IndexHtml

\* the index could be read and lists the key handle() looked up
Present ==
    /\ asset.lookups # <<>>
    /\ config.assets.index_ok
    /\ asset.lookups[1] \in config.assets.entries

\* C28: a HEAD request for an asset the index lists is answered with status
\* 200 from the metadata check alone: get_kv_value is never called
C28_HeadFromMetadata ==
    (map.method = "HEAD" /\ Present)
        => /\ asset.fetches = <<>>
           /\ (Returned /\ ~is_some(map.if_modified_since))
                 => unwrap(out).status = 200

\* the If-Modified-Since header parses to a date d with md.modified <= d
NotModifiedSince ==
    /\ is_some(map.if_modified_since)
    /\ unwrap(map.if_modified_since) \in DOMAIN Rfc2822Seconds
    /\ config.assets.modified <= Rfc2822Seconds[unwrap(map.if_modified_since)]

\* C29: for an asset the index lists, a request with If-Modified-Since d and
\* md.modified <= d ends with Err(304, "Not Modified") without a KV fetch and
\* the host receives 304; with the header absent, unparsable, or
\* md.modified > d the handler fetches the asset
C29_ConditionalRequest ==
    (Present /\ GetOrHead /\ asset.stage # "idle")
        => IF NotModifiedSince
           THEN /\ asset.result = ErrResult(handler_return(304, NotModifiedText))
                /\ asset.fetches = <<>>
                /\ Returned => unwrap(out).status = 304
           ELSE asset.fetches = <<asset.lookups[1]>>


\* handle() ran on a request it does not serve: the method is neither GET
\* nor HEAD, the path is empty, or the index lists no entry for the key
Declined ==
    /\ asset.stage = "done"
    /\ \/ ~GetOrHead
       \/ RequestPath = <<>>
       \/ /\ asset.lookups # <<>>
          /\ config.assets.index_ok
          /\ asset.lookups[1] \notin config.assets.entries

\* C30: a request the StaticAssetHandler does not serve makes handle return
\* Ok(()) with the Context as it was (response unset, no header, no internal
\* error, no log, no task) and no KV fetch, and the next handler is invoked
C30_DeclinesWithoutEffect ==
    Declined
        => /\ asset.result = OkResult
           /\ asset.fetches = <<>>
           /\ (pc = "handle" /\ i = 1) => ctx = DefaultContext
           /\ (calls[1].done)
                 => /\ calls[1].result = OkResult
                    /\ calls[1].resp = DefaultResponse
                    /\ i >= 2
           /\ (config.handlers >= 2 /\ pc \in {"finalize", "respond", "returned"})
                 => /\ Len(calls) >= 2
                    /\ calls[2].idx = 2

C30_Witness ==
    /\ Declined
    /\ asset.lookups # <<>>
    /\ Returned
    /\ Len(calls) = 2
    /\ calls[2].made = {"text"}
    /\ unwrap(out).body = CafeBytes


\* C31: has_asset(req) is true exactly when req is GET or HEAD and handle
\* finds an index entry for req's path
C31_HasAssetAgrees ==
    (is_some(asset.has) /\ asset.stage \in {"fetching", "done"})
        => (unwrap(asset.has) <=> (GetOrHead /\ Present))


(***************************************************************************)
(* Progress of the deferred future.  service_request has no await between  *)
(* the submission and its return, so it reaches the return; the host's     *)
(* executor polls a future that can make progress; every logger.send and   *)
(* every task's run that was called returns.                               *)
(***************************************************************************)
Fairness ==
    /\ WF_vars(Respond)
    /\ WF_vars(SendLogs)
    /\ WF_vars(SendLogsDone)
    /\ WF_vars(RunTask)
    /\ WF_vars(RunTaskDone)
    /\ WF_vars(SendTaskLogs)
    /\ WF_vars(SendTaskLogsDone)

\* the end of the handler loop of a one-handler invocation whose handler
\* logged and deferred up to MaxOps times and passed
InitDeferred ==
    /\ map = [method |-> "GET", url |-> "https://example.com/",
              headers |-> "Headers", event |-> "extendable"]
    /\ config = [handlers |-> 1, internal_error_handler |-> "default"]
    /\ pc = "finalize"
    /\ wait_func = "function"
    /\ \E n \in 0..MaxOps, m \in 0..MaxOps :
          /\ n + m <= MaxOps
          /\ ops = n + m
          /\ ctx = [DefaultContext EXCEPT
                      !.deferred = [k \in 1..n |-> <<1, k - 1>>],
                      !.log_queue = [k \in 1..m |->
                                        LogEntry("Info", "handler", 0, <<>>, <<1, k - 1>>)]]
          /\ calls = <<[idx |-> 1,
                        made |-> (IF n > 0 THEN {"defer"} ELSE {})
                                  \cup (IF m > 0 THEN {"log"} ELSE {}),
                        done |-> TRUE, result |-> OkResult,
                        resp |-> DefaultResponse]>>
    /\ logged = ctx.log_queue
    /\ i = 2
    /\ handler_result = OkResult
    /\ out = None
    /\ err = None
    /\ promise = None
    /\ waited = "none"
    /\ dpc = "none"
    /\ tk = 1
    /\ run_ctx = <<>>
    /\ sending = <<>>
    /\ sink = <<>>
    /\ console = <<>>
    /\ ieh_calls = 0
    /\ asset = NoAsset
    /\ pair = NoPair
    /\ dtrace = <<>>
    /\ response = None
    /\ dhist = [run_logs |-> <<>>, sends |-> <<>>]

NextDeferred ==
    \/ Finalize
    \/ Respond
    \/ SendLogs
    \/ SendLogsDone
    \/ RunTask
    \/ TaskLog
    \/ RunTaskDone
    \/ SendTaskLogs
    \/ SendTaskLogsDone

SpecLive == InitDeferred /\ [][NextDeferred]_vars /\ Fairness

\* C32: the future submitted to waitUntil eventually resolves with
\* undefined, whatever the number of tasks and the outcome of the two sends
C32_DeferredTerminates == (dpc = "queued") ~> (dpc = "resolved")

C32_Witness ==
    /\ dpc = "resolved"
    /\ Len(args.tasks) = 2
    /\ dhist.sends = <<FALSE, FALSE>>


(***************************************************************************)
(* Properties of the invocation as a whole.                                *)
(***************************************************************************)
\* the tasks whose run the deferred future started, and those that returned
RunEvents(kind) ==
    LET ev == SelectSeq(dtrace, LAMBDA e : e[1] = "run" /\ e[2] = kind)
    IN  [k \in 1..Len(ev) |-> ev[k][3]]

\* task t was appended by a defer() call of a handler that was invoked
DeferredByHandler(t) ==
    \E k \in DOMAIN calls : calls[k].idx = t[1] /\ "defer" \in calls[k].made

\* the tasks run are those handed over, each once, each deferred here
C33_Ran ==
    /\ IsPrefix(RunEvents("start"), IF is_some(promise) THEN args.tasks ELSE <<>>)
    /\ \A t \in Range(RunEvents("start")) : DeferredByHandler(t)
    /\ NoDuplicates(RunEvents("start"))
    /\ dpc = "resolved"
          => /\ RunEvents("start") = args.tasks
             /\ RunEvents("done") = args.tasks

\* defer() only appends; the end of the chain hands over every task appended
C33_Kept ==
    [][IF pc = "finalize"
       THEN is_some(promise') /\ unwrap(promise').tasks = ctx.deferred
       ELSE IsPrefix(ctx.deferred, ctx'.deferred)]_vars

\* C33: every task a handler deferred is run exactly once by the deferred
\* future, in append order, however the chain ended (Ok answer,
\* Err(HandlerReturn), internal-error diversion, 404 fallback), and no other
\* task is run
C33_TasksSurvive == []C33_Ran /\ C33_Kept

C33_Witness ==
    /\ dpc = "resolved"
    /\ ieh_calls = 1
    /\ Len(args.tasks) = 1
    /\ RunEvents("done") = args.tasks


\* the headers of response r as the host's header store shows them
HostHeaders(r) == IF is_some(r.headers) THEN unwrap(r.headers) ELSE NewHeaders

\* every header response r carries is in the returned map with its value
HeadersReturned(r) ==
    \A n \in HeaderNames :
        HostHeaders(r)[n] # Absent => unwrap(out).headers[n] = HostHeaders(r)[n]

\* C34 as stated: every header the invoked handlers set on the response is
\* in the response returned to the host, with the same value
C34_HeadersAsStated ==
    (Returned /\ calls # <<>>) => HeadersReturned(calls[Len(calls)].resp)

C34_State ==
    Returned
        => /\ unwrap(out).headers = HostHeaders(unwrap(response))
           /\ (ieh_calls = 0 /\ calls # <<>>)
                 => unwrap(out).headers = HostHeaders(calls[Len(calls)].resp)
           /\ (ieh_calls = 0 /\ calls = <<>>) => unwrap(out).headers = NewHeaders

C34_Step ==
    [][pc = "finalize" => unwrap(response').headers = ctx.response.headers]_vars

\* C34 (amended): the HandlerReturn overwrite and the 404 fallback leave the
\* headers as they were when the chain ended, and the returned map carries
\* exactly those; unless the internal-error handler ran, they are the headers
\* the handlers set
C34_FinalizeKeepsHeaders == []C34_State /\ C34_Step

C34_Witness ==
    /\ Returned
    /\ handler_result.is_err
    /\ unwrap(out).status = 500
    /\ unwrap(out).headers["content-type"] = "text/html"


C35_State ==
    /\ ieh_calls <= 1
    /\ ieh_calls = 1
          => /\ \E k \in DOMAIN calls : Raised(calls[k])
             /\ pc \in {"finalize", "respond", "returned"}
             /\ \A k \in DOMAIN calls : calls[k].done
    /\ (\A k \in DOMAIN calls : ~Raised(calls[k])) => ieh_calls = 0

C35_Step ==
    [][/\ ieh_calls' # ieh_calls
          => /\ ieh_calls' = ieh_calls + 1
             /\ is_some(ctx.internal_error)
             /\ pc = "loop"
       /\ ieh_calls = 1 => calls' = calls]_vars

\* C35: the internal-error handler is invoked at most once per invocation,
\* only with the Context's marker set, never when no handler raised an
\* internal error, and no handler's handle is invoked after it
C35_OnlyOnDiversion == []C35_State /\ C35_Step

C35_Witness ==
    /\ Returned
    /\ ieh_calls = 1
    /\ config.handlers = 2
    /\ Len(calls) = 1
    /\ unwrap(out) = InternalErrorPage


\* C36: a json() call whose serialization fails returns Error::Json and
\* leaves body, status, headers and the unset flag as they were; one that
\* succeeds sets the body to the JSON bytes and Content-Type to
\* application/json, replacing an earlier Content-Type, and clears unset
C36_JsonAllOrNothing ==
    \A k \in DOMAIN calls :
        (pc = "builder" /\ calls[k].name = "json") =>
            IF calls[k].ok
            THEN /\ AfterCall(k).body = to_vec("serializable")
                 /\ HostHeaders(AfterCall(k))["content-type"] = "application/json"
                 /\ ~is_unset(AfterCall(k))
                 /\ AfterCall(k).status = calls[k].before.status
            ELSE /\ calls[k].err = "Json"
                 /\ AfterCall(k) = calls[k].before

C36_Witness ==
    /\ pc = "builder"
    /\ Len(calls) = 3
    /\ calls[1].name = "content_type" /\ calls[1].ok
    /\ calls[2].name = "json" /\ ~calls[2].ok
    /\ HostHeaders(AfterCall(2))["content-type"] = "text/html"
    /\ calls[3].name = "json" /\ calls[3].ok
    /\ HostHeaders(ctx.response)["content-type"] = "application/json"

====
